---- MODULE Spec2Model ----
(***************************************************************************)
(* Model of the Gemini multi-account rotation of termi_tool:               *)
(*   categorie/data_ai/vision_tool/multimodal_tool/image_annotator.py      *)
(*   categorie/data_ai/ai_development/gemini_tools/account_manager.py      *)
(* The annotator owns one GeminiAccountManager, loaded from the persisted  *)
(* store when the annotator is constructed, and _analyze_image rotates     *)
(* over the accounts of that manager for every image.                      *)
(***************************************************************************)
EXTENDS Integers, Sequences, FiniteSets, TLC

\* ------------------------------------------------------------------ bounds
\* Largest number of accounts in the persisted store.
MaxAccounts == 3
\* Largest number of image files in the directory annotate_directory is given,
\* which is the largest number of _analyze_image calls on one annotator.
MaxCalls == 2

\* ------------------------------------------------------------- vocabulary
\* Python's None where a string is expected, and where a tuple or list is.
\* The string is one that no stripped text and no email equals.
None == " "
Null == <<>>

EmailPool == <<"a@x", "b@x", "c@x", "d@x", "e@x">>
Emails == {EmailPool[i] : i \in 1..MaxAccounts}

\* The API key registered for an email (one key per email in the model).
KeyOf(email) == <<"key", email>>

\* The value stored under an email in accounts.json.
AccountData(email) == [email |-> email, api_key |-> KeyOf(email)]

RECURSIVE SeqToSet(_)
SeqToSet(s) == IF s = <<>> THEN {} ELSE {Head(s)} \cup SeqToSet(Tail(s))

\* Insertion-ordered dicts of accounts with pairwise different emails.
DistinctSeqs(S, n) ==
    UNION {{s \in [1..k -> S] : \A i, j \in 1..k : i /= j => s[i] /= s[j]} : k \in 0..n}

StoreDicts == {[i \in 1..Len(s) |-> AccountData(s[i])] : s \in DistinctSeqs(Emails, MaxAccounts)}

VARIABLES
    file_accounts,    \* ~/.termi_tool/gemini/accounts.json, in insertion order
    file_current,     \* ~/.termi_tool/gemini/current_account, None when absent
    accounts,         \* annotator.account_manager.accounts
    current_account,  \* annotator.account_manager.current_account
    phase,            \* "new", "ready", "no_credentials", "init_error"
    current_model,    \* api key self.current_model was initialised with
    current_email,    \* self.current_email
    pc,               \* position in _analyze_image: "idle", "loop", "returned"
    all_accounts,     \* local all_accounts of _analyze_image
    tried_accounts,   \* local tried_accounts
    rot_account,      \* local current_account of _analyze_image
    calls,            \* work invocations of the running call, in order
    sleeps,           \* 5 second cool-downs taken by the running call
    result,           \* value returned by the last call (read when pc = "returned")
    outcome,          \* how the last call ended
    last_print,       \* last per-account diagnostic printed by the running call
    ncalls,           \* _analyze_image calls started so far
    store0,           \* the store as loaded at construction
    last_op,          \* last GeminiAccountManager call: its arguments and return
    pre_store,        \* the store as it was before that call
    other,            \* a second GeminiAccountManager over the same files
                      \* (Null until it is constructed)
    added,            \* emails added with success and not deleted since
    current_path,     \* start(): the keys chosen from the main menu down
    choice,           \* the last input of the navigation loop (None before)
    handled,          \* how the loop handled it: "none", "exit", "back",
                      \* "main", "submenu", "invalid", "error", or what
                      \* execute_tool did (see execute_tool)
    prev_path,        \* current_path before that input
    failed_before,    \* emails whose request failed in an earlier call
    batch,            \* annotate_directory: "none", "no_images", "running",
                      \* "done", "aborted" (an exception left the for loop)
    total,            \* total_images
    written           \* records written to annotations.jsonl, in order

storeVars == <<file_accounts, file_current, accounts, current_account>>
objVars == <<phase, current_model, current_email>>
callVars == <<pc, all_accounts, tried_accounts, rot_account, calls, sleeps,
              result, outcome, last_print, ncalls, failed_before>>
mgrVars == <<last_op, pre_store, other, added>>
batchVars == <<batch, total, written>>
navVars == <<current_path, choice, handled, prev_path>>
vars == <<storeVars, objVars, callVars, store0, mgrVars, batchVars, navVars>>

\* --------------------------------------------------------- account manager
\* email in self.accounts
HasAccount(accts, email) == \E i \in 1..Len(accts) : accts[i].email = email

\* self.accounts.get(email), for an email that is in self.accounts
AccountsGet(accts, email) == accts[CHOOSE i \in 1..Len(accts) : accts[i].email = email]

\* GeminiAccountManager.list_accounts
list_accounts(accts, cur) ==
    [i \in 1..Len(accts) |-> [email |-> accts[i].email,
                              is_current |-> accts[i].email = cur]]

\* Variant: the pointer is trusted without looking the account up.
get_current_credentials_unchecked(accts, cur) ==
    IF cur = None THEN Null ELSE <<cur, KeyOf(cur)>>

\* GeminiAccountManager.get_current_credentials
get_current_credentials(accts, cur) ==
    IF cur = None THEN Null
    ELSE IF ~HasAccount(accts, cur) THEN Null
    ELSE <<cur, AccountsGet(accts, cur).api_key>>

\* self.accounts[email] = {...}: a new key goes last, a known key keeps its place
DictSet(accts, email, api_key) ==
    IF HasAccount(accts, email)
    THEN [i \in 1..Len(accts) |->
             IF accts[i].email = email THEN [email |-> email, api_key |-> api_key]
             ELSE accts[i]]
    ELSE Append(accts, [email |-> email, api_key |-> api_key])

\* del self.accounts[email]
DictDel(accts, email) == SelectSeq(accts, LAMBDA a : a.email /= email)

\* The keys add_account is called with.
ApiKeys == {KeyOf("a@x"), KeyOf("other")}

\* The manager and the files it persists to, as one value. A manager call
\* maps such a value to [store, ret]; fault names the file write that raises
\* and how (see FaultWrite, FaultHow).
Store == [accounts |-> accounts, current_account |-> current_account,
          file_accounts |-> file_accounts, file_current |-> file_current]

NoOp == [op |-> "none", email |-> None, api_key |-> Null, ret |-> <<FALSE, "">>]

\* Variant: every added account becomes the current one.
IsFirstAccountAlways(accts) == Len(accts) >= 1

\* len(self.accounts) == 1, after the new account went in
IsFirstAccount(accts) == Len(accts) = 1

\* Variant: the last remaining account is taken.
LastKey(accts) == accts[Len(accts)].email

\* next(iter(self.accounts.keys()))
FirstKey(accts) == accts[1].email

\* Which write_text of the call raises, and how: before the file is opened
\* (the file stays as it was), after the open truncated it (the file is
\* empty), or part-way through the text (the file holds a prefix).
FaultWrite(fault) ==
    IF fault \in {"first", "first_empty", "first_part"} THEN "first"
    ELSE IF fault \in {"second", "second_empty", "second_part"} THEN "second"
    ELSE "none"

FaultHow(fault) ==
    IF fault \in {"first_empty", "second_empty"} THEN "empty"
    ELSE IF fault \in {"first_part", "second_part"} THEN "part"
    ELSE "closed"

\* accounts.json holding no JSON text: nothing, or a proper prefix of a dump.
CutFile == <<[email |-> "", api_key |-> <<"cut">>]>>

\* accounts.json after a _save_accounts that raised
FailedSave(old, how) == IF how = "closed" THEN old ELSE CutFile

\* A proper prefix of an email that is not empty.
PartOf(email) ==
    CASE email = "a@x" -> "a@"
      [] email = "b@x" -> "b@"
      [] email = "c@x" -> "c@"
      [] email = "d@x" -> "d@"
      [] OTHER -> "e@"

\* The pointer file after a _save_current_account(email) that raised
FailedPointer(old, email, how) ==
    IF how = "closed" THEN old
    ELSE IF how = "empty" THEN ""
    ELSE PartOf(email)

\* Variant: no test whether the email is already stored.
add_account_overwrite(st, email, api_key, fault) ==
    LET accts1 == DictSet(st.accounts, email, api_key)
        st1 == [st EXCEPT !.accounts = accts1]
        st2 == [st1 EXCEPT !.file_accounts = accts1] IN
    IF FaultWrite(fault) = "first"
    THEN [store |-> [st1 EXCEPT !.file_accounts = FailedSave(st.file_accounts, FaultHow(fault))],
          ret |-> <<FALSE, "Error adding account">>]
    ELSE IF IsFirstAccount(accts1)
    THEN IF FaultWrite(fault) = "second"
         THEN [store |-> [st2 EXCEPT !.file_current =
                              FailedPointer(st.file_current, email, FaultHow(fault))],
               ret |-> <<FALSE, "Error adding account">>]
         ELSE [store |-> [st2 EXCEPT !.file_current = email, !.current_account = email],
               ret |-> <<TRUE, "Account added successfully">>]
    ELSE [store |-> st2, ret |-> <<TRUE, "Account added successfully">>]

\* GeminiAccountManager.add_account
add_account(st, email, api_key, fault) ==
    IF HasAccount(st.accounts, email)
    THEN [store |-> st, ret |-> <<FALSE, "Account already exists">>]
    ELSE LET accts1 == DictSet(st.accounts, email, api_key)
             st1 == [st EXCEPT !.accounts = accts1]
             st2 == [st1 EXCEPT !.file_accounts = accts1] IN
         IF FaultWrite(fault) = "first"
         THEN [store |-> [st1 EXCEPT !.file_accounts =
                              FailedSave(st.file_accounts, FaultHow(fault))],
               ret |-> <<FALSE, "Error adding account">>]
         ELSE IF IsFirstAccount(accts1)
         THEN IF FaultWrite(fault) = "second"
              THEN [store |-> [st2 EXCEPT !.file_current =
                                   FailedPointer(st.file_current, email, FaultHow(fault))],
                    ret |-> <<FALSE, "Error adding account">>]
              ELSE [store |-> [st2 EXCEPT !.file_current = email, !.current_account = email],
                    ret |-> <<TRUE, "Account added successfully">>]
         ELSE [store |-> st2, ret |-> <<TRUE, "Account added successfully">>]

\* Variant: the pointer is moved in the manager only.
switch_account_nosave(st, email, fault) ==
    IF ~HasAccount(st.accounts, email)
    THEN [store |-> st, ret |-> <<FALSE, "Account not found">>]
    ELSE [store |-> [st EXCEPT !.current_account = email],
          ret |-> <<TRUE, "Successfully switched account">>]

\* Variant: the pointer is moved without looking the email up.
switch_account_unchecked(st, email, fault) ==
    IF FaultWrite(fault) = "first"
    THEN [store |-> [st EXCEPT !.file_current =
                         FailedPointer(st.file_current, email, FaultHow(fault))],
          ret |-> <<FALSE, "Error switching account">>]
    ELSE [store |-> [st EXCEPT !.file_current = email, !.current_account = email],
          ret |-> <<TRUE, "Successfully switched account">>]

\* GeminiAccountManager.switch_account
switch_account(st, email, fault) ==
    IF ~HasAccount(st.accounts, email)
    THEN [store |-> st, ret |-> <<FALSE, "Account not found">>]
    ELSE IF FaultWrite(fault) = "first"
    THEN [store |-> [st EXCEPT !.file_current =
                         FailedPointer(st.file_current, email, FaultHow(fault))],
          ret |-> <<FALSE, "Error switching account">>]
    ELSE [store |-> [st EXCEPT !.file_current = email, !.current_account = email],
          ret |-> <<TRUE, "Successfully switched account">>]

\* GeminiAccountManager.delete_account
delete_account(st, email, fault) ==
    IF ~HasAccount(st.accounts, email)
    THEN [store |-> st, ret |-> <<FALSE, "Account not found">>]
    ELSE LET accts1 == DictDel(st.accounts, email)
             st1 == [st EXCEPT !.accounts = accts1]
             st2 == [st1 EXCEPT !.file_accounts = accts1] IN
         IF FaultWrite(fault) = "first"
         THEN [store |-> [st1 EXCEPT !.file_accounts =
                              FailedSave(st.file_accounts, FaultHow(fault))],
               ret |-> <<FALSE, "Error deleting account">>]
         ELSE IF email /= st.current_account
         THEN [store |-> st2, ret |-> <<TRUE, "Account deleted successfully">>]
         ELSE IF accts1 /= <<>>
         THEN IF FaultWrite(fault) = "second"
              THEN [store |-> [st2 EXCEPT !.file_current =
                                   FailedPointer(st.file_current, FirstKey(accts1),
                                                 FaultHow(fault))],
                    ret |-> <<FALSE, "Error deleting account">>]
              ELSE [store |-> [st2 EXCEPT !.file_current = FirstKey(accts1),
                                          !.current_account = FirstKey(accts1)],
                    ret |-> <<TRUE, "Account deleted successfully">>]
         ELSE IF st.file_current /= None /\ FaultWrite(fault) = "second"
         THEN \* unlink raises: the pointer file stays
              [store |-> st2, ret |-> <<FALSE, "Error deleting account">>]
         ELSE [store |-> [st2 EXCEPT !.file_current = None, !.current_account = None],
               ret |-> <<TRUE, "Account deleted successfully">>]


\* ------------------------------------------------------- text handling
UpperCase == <<"A","B","C","D","E","F","G","H","I","J","K","L","M",
               "N","O","P","Q","R","S","T","U","V","W","X","Y","Z">>
LowerCase == <<"a","b","c","d","e","f","g","h","i","j","k","l","m",
               "n","o","p","q","r","s","t","u","v","w","x","y","z">>

\* str.lower() of one ASCII character
AsciiLower(c) ==
    IF \E k \in 1..26 : UpperCase[k] = c
    THEN LowerCase[CHOOSE k \in 1..26 : UpperCase[k] = c]
    ELSE c

\* keyword in error_str
Contains(hay, needle) ==
    \E i \in 0..(Len(hay) - Len(needle)) : SubSeq(hay, i + 1, i + Len(needle)) = needle

Keywords == {<<"q","u","o","t","a">>, <<"r","a","t","e">>, <<"l","i","m","i","t">>}

\* any(keyword in error_str for keyword in ["quota", "rate", "limit"]),
\* error_str = str(e).lower(). The message is the sequence of its
\* characters, one outside ASCII being the token named by its code point.
\* Such a character stays as it is here: none lowers to letters that a
\* keyword has next to each other (U+0130 gives "i" and U+0307, U+212A
\* gives "k", every other one no ASCII character at all).
IsTransient(error) ==
    \E keyword \in Keywords :
        Contains([i \in 1..Len(error) |-> AsciiLower(error[i])], keyword)

\* A response text is a sequence of tokens: "FENCE_JSON" for the opening
\* markdown fence (three backquotes and json), "FENCE" for the closing one
\* (three backquotes), white space, JSON punctuation, "obj" for one
\* {"prefix":..,"suffix":..} object, "num" for a number and "oops" for text
\* that is no JSON.
\* The characters str.strip() removes (those str.isspace() holds of). One
\* that has no escape in a string is the token named by its code point.
White ==
    {"\t", "\n", "U+000B", "\f", "\r", "U+001C", "U+001D", "U+001E", "U+001F",
     " ", "U+0085", "U+00A0", "U+1680", "U+2000", "U+2001", "U+2002", "U+2003",
     "U+2004", "U+2005", "U+2006", "U+2007", "U+2008", "U+2009", "U+200A",
     "U+2028", "U+2029", "U+202F", "U+205F", "U+3000"}

\* The white space json.loads skips between the tokens of a text.
JsonWhite == {" ", "\t", "\n", "\r"}

RECURSIVE LStrip(_)
LStrip(text) == IF text /= <<>> /\ Head(text) \in White THEN LStrip(Tail(text)) ELSE text

RECURSIVE RStrip(_)
RStrip(text) ==
    IF text /= <<>> /\ text[Len(text)] \in White
    THEN RStrip(SubSeq(text, 1, Len(text) - 1)) ELSE text

\* The clean-up of response.text before json.loads
CleanResponse(text) ==
    LET t1 == IF text /= <<>> /\ Head(text) = "FENCE_JSON" THEN Tail(text) ELSE text
        t2 == IF t1 /= <<>> /\ t1[Len(t1)] = "FENCE" THEN SubSeq(t1, 1, Len(t1) - 1) ELSE t1
    IN  LStrip(RStrip(t2))

RECURSIVE DropWhite(_)
DropWhite(text) ==
    IF text = <<>> THEN <<>>
    ELSE IF Head(text) \in JsonWhite THEN DropWhite(Tail(text))
    ELSE <<Head(text)>> \o DropWhite(Tail(text))

\* The JSON values written as one token: "obj" is an object with the keys
\* "prefix" and "suffix", "num" a number. The other values are the object
\* without keys "{" "}" and the arrays "[" value "," ... "]".
JsonValues == {"obj", "num"}

\* The recursive descent of json.loads over the tokens: the position where
\* the value that starts at position i ends, 0 when no value starts there;
\* and the position of the "]" that closes the items starting at position i.
RECURSIVE ParseValue(_, _), ParseItems(_, _)
ParseValue(toks, i) ==
    IF i > Len(toks) THEN 0
    ELSE IF toks[i] \in JsonValues THEN i
    ELSE IF toks[i] = "{"
    THEN IF i + 1 <= Len(toks) /\ toks[i + 1] = "}" THEN i + 1 ELSE 0
    ELSE IF toks[i] = "["
    THEN IF i + 1 <= Len(toks) /\ toks[i + 1] = "]" THEN i + 1 ELSE ParseItems(toks, i + 1)
    ELSE 0

ParseItems(toks, i) ==
    LET end == ParseValue(toks, i) IN
    IF end = 0 \/ end + 1 > Len(toks) THEN 0
    ELSE IF toks[end + 1] = "]" THEN end + 1
    ELSE IF toks[end + 1] = "," THEN ParseItems(toks, end + 2)
    ELSE 0

\* value, ",", value, ... : the items of a JSON array
IsItems(toks) == ParseItems(Append(toks, "]"), 1) = Len(toks) + 1

\* The items of the array whose first item starts at position i, each item
\* as the tokens it is written with.
RECURSIVE ItemsFrom(_, _)
ItemsFrom(toks, i) ==
    LET end == ParseValue(toks, i) IN
    <<SubSeq(toks, i, end)>> \o
        (IF toks[end + 1] = "," THEN ItemsFrom(toks, end + 2) ELSE <<>>)

\* json.loads: ok is FALSE for a JSONDecodeError; is_list is
\* isinstance(result, list). The value of a list is the sequence of its
\* items, the value of anything else the tokens it is written with.
JsonLoads(text) ==
    LET toks == DropWhite(text) IN
    IF toks = <<>> \/ ParseValue(toks, 1) /= Len(toks)
    THEN [ok |-> FALSE, is_list |-> FALSE, value |-> <<>>]
    ELSE IF toks[1] = "["
    THEN [ok |-> TRUE, is_list |-> TRUE,
          value |-> IF Len(toks) = 2 THEN <<>> ELSE ItemsFrom(toks, 2)]
    ELSE [ok |-> TRUE, is_list |-> FALSE, value |-> toks]

\* ------------------------------------------------ loading the store
\* json.dumps(accounts): the pairs of the dict in insertion order
JsonDumps(accts) == [i \in 1..Len(accts) |-> <<accts[i].email, accts[i].api_key>>]

\* json.loads of such a text: the pairs are inserted from left to right
RECURSIVE JsonLoadsDict(_)
JsonLoadsDict(pairs) ==
    IF pairs = <<>> THEN <<>>
    ELSE LET last == pairs[Len(pairs)] IN
         DictSet(JsonLoadsDict(SubSeq(pairs, 1, Len(pairs) - 1)), last[1], last[2])

\* _load_accounts over what _save_accounts wrote
load_accounts(file) ==
    IF file = CutFile THEN <<>>   \* json.loads raises: return {}
    ELSE JsonLoadsDict(JsonDumps(file))

\* current_file.write_text(email): the text of the pointer file
WriteText(email) == <<email>>

\* The text of the pointer file is a sequence of tokens: white space, and
\* words without white space in them. A stripped text of no word is "", of
\* one word that word; one of several words is a string with white space
\* inside, which is no stored email.
TextString(text) ==
    IF text = <<>> THEN ""
    ELSE IF Len(text) = 1 THEN text[1]
    ELSE "several words"

\* _load_current_account: read_text().strip() if the file exists, else None
load_current_account(exists, text) ==
    IF exists THEN TextString(RStrip(LStrip(text))) ELSE None

\* The pointer a manager loads from the pointer file the model holds.
LoadedPointer(file) == load_current_account(file /= None, WriteText(file))

\* ------------------------------------------------------------ the work
\* What one request to the vision API does for one account: label and value
\* say what happened (the success value is the list the response encodes),
\* the other fields are what the code sees of it.
Response(label, value, has_text, text) ==
    [label |-> label, value |-> value, raises |-> FALSE, error |-> <<>>,
     has_text |-> has_text, text |-> text]
Raises(label, error) ==
    [label |-> label, value |-> <<>>, raises |-> TRUE, error |-> error,
     has_text |-> FALSE, text |-> <<>>]

WorkBehaviours ==
    { Response("success", <<>>, TRUE, <<"[", "]">>),
      Response("success", <<<<"obj">>>>, TRUE,
               <<"FENCE_JSON", "\n", "[", "obj", "]", "\f", "FENCE">>),
      Response("success", <<<<"num">>, <<"{", "}">>>>, TRUE,
               <<"[", "num", ",", "{", "}", "]">>),
      Response("invalid", <<>>, FALSE, <<>>),
      Response("invalid", <<>>, TRUE, <<"{", "}">>),
      Response("invalid", <<>>, TRUE, <<"num">>),
      Response("invalid", <<>>, TRUE, <<"oops">>),
      Raises("transient", <<"4","2","9"," ","Q","u","o","t","a">>),
      Raises("transient", <<"R","A","T","E"," ","l","i","m","i","t">>),
      Raises("permanent", <<"b","a","d"," ","k","e","y">>) }

\* ------------------------------------------------------- _analyze_image
\* Variant: the loop stops one account short.
LoopConditionShort(tried, all) == Cardinality(tried) + 1 < Len(all)

\* while len(tried_accounts) < len(all_accounts)
LoopCondition(tried, all) == Cardinality(tried) < Len(all)

\* accounts_list = [acc["email"] for acc in all_accounts]
AccountsList(all) == [i \in 1..Len(all) |-> all[i].email]

\* accounts_list.index(current_account), 1-based
IndexOf(accounts_list, email) ==
    CHOOSE i \in 1..Len(accounts_list) :
        accounts_list[i] = email /\ \A j \in 1..(i - 1) : accounts_list[j] /= email

\* Variant: the 0-based index is advanced twice.
NextAccountSkip(accounts_list, email) ==
    accounts_list[((IndexOf(accounts_list, email) + 1) % Len(accounts_list)) + 1]

\* accounts_list[(current_idx + 1) % len(accounts_list)]
NextAccount(accounts_list, email) ==
    accounts_list[(IndexOf(accounts_list, email) % Len(accounts_list)) + 1]

\* Variant: the response text is parsed without removing the fences.
TryAccountNoCleanup(w) ==
    IF w.raises
    THEN [returned |-> FALSE, value |-> <<>>,
          print |-> IF IsTransient(w.error) THEN "error" ELSE "permanent"]
    ELSE IF ~w.has_text
    THEN [returned |-> FALSE, value |-> <<>>, print |-> "invalid"]
    ELSE LET parsed == JsonLoads(w.text) IN
         IF parsed.ok /\ parsed.is_list
         THEN [returned |-> TRUE, value |-> parsed.value, print |-> "success"]
         ELSE [returned |-> FALSE, value |-> <<>>, print |-> "invalid"]

\* Variant: a response without text is returned as the empty list.
TryAccountNoText(w) ==
    IF w.raises
    THEN [returned |-> FALSE, value |-> <<>>,
          print |-> IF IsTransient(w.error) THEN "error" ELSE "permanent"]
    ELSE IF ~w.has_text
    THEN [returned |-> TRUE, value |-> <<>>, print |-> "success"]
    ELSE LET parsed == JsonLoads(CleanResponse(w.text)) IN
         IF parsed.ok /\ parsed.is_list
         THEN [returned |-> TRUE, value |-> parsed.value, print |-> "success"]
         ELSE [returned |-> FALSE, value |-> <<>>, print |-> "invalid"]

\* The try block for one account: whether it returns, what, and the
\* diagnostic it prints.
TryAccount(w) ==
    IF w.raises
    THEN [returned |-> FALSE, value |-> <<>>,
          print |-> IF IsTransient(w.error) THEN "error" ELSE "permanent"]
    ELSE IF ~w.has_text
    THEN [returned |-> FALSE, value |-> <<>>, print |-> "invalid"]
    ELSE LET parsed == JsonLoads(CleanResponse(w.text)) IN
         IF parsed.ok /\ parsed.is_list
         THEN [returned |-> TRUE, value |-> parsed.value, print |-> "success"]
         ELSE [returned |-> FALSE, value |-> <<>>, print |-> "invalid"]

\* return [] of the give-up paths
GiveUpValue == <<>>

Init ==
    /\ file_accounts \in StoreDicts
    /\ file_current \in Emails \cup {None}
    /\ accounts = <<>>
    /\ current_account = None
    /\ phase = "new"
    /\ current_model = Null
    /\ current_email = None
    /\ pc = "idle"
    /\ all_accounts = <<>>
    /\ tried_accounts = {}
    /\ rot_account = None
    /\ calls = <<>>
    /\ sleeps = 0
    /\ result = <<>>
    /\ outcome = None
    /\ last_print = None
    /\ ncalls = 0
    /\ store0 = Null
    /\ last_op = NoOp
    /\ pre_store = Null
    /\ other = Null
    /\ added = {}
    /\ current_path = <<>>
    /\ choice = None
    /\ handled = "none"
    /\ prev_path = <<>>
    /\ failed_before = {}
    /\ batch = "none"
    /\ total = 0
    /\ written = <<>>

\* MultimodalAnnotator.__init__: GeminiAccountManager() loads the persisted
\* store, then _setup_initial_model seeds the active account.
Construct(model_ok) ==
    /\ phase = "new"
    /\ accounts' = load_accounts(file_accounts)
    /\ current_account' = LoadedPointer(file_current)
    /\ store0' = <<file_accounts, file_current, accounts', current_account'>>
    /\ LET credentials == get_current_credentials(accounts', current_account') IN
       IF credentials = Null
       THEN /\ phase' = "no_credentials"
            /\ UNCHANGED <<current_model, current_email>>
       ELSE IF model_ok
       THEN /\ phase' = "ready"
            /\ current_model' = credentials[2]
            /\ current_email' = credentials[1]
       ELSE /\ phase' = "init_error"
            /\ UNCHANGED <<current_model, current_email>>
    /\ UNCHANGED <<file_accounts, file_current, callVars, mgrVars, navVars, batchVars>>

\* The entry of annotate_directory with n image files in the directory:
\* without any, ValueError("No image files found ...") ends it.
AnnotateDirectory(n) ==
    /\ phase = "ready"
    /\ batch = "none"
    /\ total' = n
    /\ batch' = IF n = 0 THEN "no_images" ELSE "running"
    /\ UNCHANGED <<storeVars, objVars, callVars, store0, mgrVars, navVars, written>>

\* Emails whose request failed in a call.
FailedEmails(cs) == {cs[i].email : i \in {j \in DOMAIN cs : cs[j].label /= "success"}}

\* Variant: the attempt record starts with what failed in earlier calls.
StaleTried(failed) == failed

\* tried_accounts = set(), whatever failed in earlier calls
FreshTried(failed) == {}

\* The for loop calls _analyze_image for the next image: load the image,
\* list the accounts, set up the rotation. An image that cannot be read ends
\* the call in the outer except clause.
StartAnalyze(image_ok) ==
    /\ phase = "ready"
    /\ batch = "running"
    /\ pc = "idle"
    /\ ncalls < total
    /\ ncalls' = ncalls + 1
    /\ calls' = <<>>
    /\ sleeps' = 0
    /\ last_print' = None
    /\ IF ~image_ok
       THEN /\ pc' = "returned"
            /\ result' = GiveUpValue
            /\ outcome' = "load_error"
            /\ all_accounts' = <<>>
            /\ tried_accounts' = {}
            /\ rot_account' = None
       ELSE IF list_accounts(accounts, current_account) = <<>>
       THEN /\ pc' = "returned"
            /\ result' = GiveUpValue
            /\ outcome' = "no_accounts"
            /\ all_accounts' = <<>>
            /\ tried_accounts' = {}
            /\ rot_account' = None
       ELSE /\ pc' = "loop"
            /\ result' = <<>>
            /\ outcome' = None
            /\ all_accounts' = list_accounts(accounts, current_account)
            /\ tried_accounts' = FreshTried(failed_before)
            /\ rot_account' = current_email
    /\ UNCHANGED <<failed_before, storeVars, objVars, store0, mgrVars, navVars, batchVars>>

\* One pass through the body of the while loop, with w what the request does
\* if one is sent. The locals are dropped when the call returns.
IterationLocals(w) ==
    /\ pc = "loop"
    /\ LoopCondition(tried_accounts, all_accounts)
    /\ UNCHANGED <<ncalls, failed_before>>
    /\ IF rot_account \notin tried_accounts
       THEN LET account_data == HasAccount(accounts, rot_account)
                attempt == TryAccount(w)
                accounts_list == AccountsList(all_accounts) IN
            /\ sleeps' = sleeps
            /\ calls' = IF account_data
                        THEN Append(calls, [email |-> rot_account, label |-> w.label,
                                            value |-> w.value])
                        ELSE calls
            /\ last_print' = IF account_data THEN attempt.print ELSE last_print
            /\ IF account_data /\ attempt.returned
               THEN /\ pc' = "returned"
                    /\ result' = attempt.value
                    /\ outcome' = "success"
                    /\ all_accounts' = <<>>
                    /\ tried_accounts' = {}
                    /\ rot_account' = None
               ELSE IF rot_account \notin SeqToSet(accounts_list)
               THEN \* accounts_list.index raises ValueError: outer except
                    /\ pc' = "returned"
                    /\ result' = GiveUpValue
                    /\ outcome' = "error"
                    /\ all_accounts' = <<>>
                    /\ tried_accounts' = {}
                    /\ rot_account' = None
               ELSE /\ pc' = "loop"
                    /\ tried_accounts' = tried_accounts \cup {rot_account}
                    /\ rot_account' = NextAccount(accounts_list, rot_account)
                    /\ UNCHANGED <<result, outcome, all_accounts>>
       ELSE /\ IF Cardinality(tried_accounts) = Len(all_accounts)
               THEN /\ sleeps' = sleeps + 1
                    /\ tried_accounts' = {}
               ELSE UNCHANGED <<sleeps, tried_accounts>>
            /\ rot_account' = current_email
            /\ UNCHANGED <<pc, result, outcome, all_accounts, calls, last_print>>

\* Variant: a success is persisted through account_manager.switch_account.
IterationPersist(w) ==
    /\ IterationLocals(w)
    /\ IF pc' = "returned" /\ outcome' = "success"
       THEN /\ file_current' = rot_account
            /\ current_account' = rot_account
            /\ UNCHANGED <<file_accounts, accounts>>
       ELSE UNCHANGED storeVars
    /\ UNCHANGED <<objVars, store0, mgrVars, navVars, batchVars>>

Iteration(w) ==
    /\ IterationLocals(w)
    /\ UNCHANGED <<storeVars, objVars, store0, mgrVars, navVars, batchVars>>

\* The loop condition is false: "All accounts exhausted without success".
Exhausted ==
    /\ pc = "loop"
    /\ ~LoopCondition(tried_accounts, all_accounts)
    /\ pc' = "returned"
    /\ result' = GiveUpValue
    /\ outcome' = "exhausted"
    /\ all_accounts' = <<>>
    /\ tried_accounts' = {}
    /\ rot_account' = None
    /\ UNCHANGED <<calls, sleeps, last_print, ncalls, failed_before,
                   storeVars, objVars, store0, mgrVars, navVars, batchVars>>

\* An annotation of the returned list that has the keys "prefix" and "suffix".
IsAnnotation(item) == item = <<"obj">>

\* The annotations the for loop writes before one of them raises, if any does.
RECURSIVE Writable(_)
Writable(annotations) ==
    IF annotations = <<>> \/ ~IsAnnotation(Head(annotations)) THEN <<>>
    ELSE <<Head(annotations)>> \o Writable(Tail(annotations))

\* Back in the for loop of annotate_directory with the list _analyze_image
\* returned: one record per annotation. annotation["prefix"] raises on an
\* item that is no dict with that key, and nothing in annotate_directory
\* catches it. After the last image the writer is closed. The call of
\* _analyze_image is over: what is kept of it is which emails failed.
WriteAnnotations ==
    /\ batch = "running"
    /\ pc = "returned"
    /\ pc' = "idle"
    /\ failed_before' = failed_before \cup FailedEmails(calls)
    /\ calls' = <<>>
    /\ sleeps' = 0
    /\ result' = <<>>
    /\ outcome' = None
    /\ last_print' = None
    /\ LET records == Writable(result) IN
       /\ written' = written \o [i \in 1..Len(records) |-> [image |-> ncalls, annotation |-> records[i]]]
       /\ batch' = IF Len(records) < Len(result) THEN "aborted"
                   ELSE IF ncalls = total THEN "done"
                   ELSE "running"
    /\ UNCHANGED <<all_accounts, tried_accounts, rot_account, ncalls, total,
                   storeVars, objVars, store0, mgrVars, navVars>>

Next ==
    \/ \E model_ok \in BOOLEAN : Construct(model_ok)
    \/ \E n \in 0..MaxCalls : AnnotateDirectory(n)
    \/ \E image_ok \in BOOLEAN : StartAnalyze(image_ok)
    \/ \E w \in WorkBehaviours : Iteration(w)
    \/ Exhausted
    \/ WriteAnnotations

Spec == Init /\ [][Next]_vars

\* ------------------------------------------- one manager, used on its own
\* A GeminiAccountManager constructed over an empty store.
InitMgr ==
    /\ file_accounts = <<>>
    /\ file_current = None
    /\ accounts = <<>>
    /\ current_account = None
    /\ phase = "new"
    /\ current_model = Null
    /\ current_email = None
    /\ pc = "idle"
    /\ all_accounts = <<>>
    /\ tried_accounts = {}
    /\ rot_account = None
    /\ calls = <<>>
    /\ sleeps = 0
    /\ result = <<>>
    /\ outcome = None
    /\ last_print = None
    /\ ncalls = 0
    /\ store0 = Null
    /\ last_op = NoOp
    /\ pre_store = Null
    /\ other = Null
    /\ added = {}
    /\ current_path = <<>>
    /\ choice = None
    /\ handled = "none"
    /\ prev_path = <<>>
    /\ failed_before = {}
    /\ batch = "none"
    /\ total = 0
    /\ written = <<>>

\* The manager and its files become what a call made of them.
Apply(op, email, api_key, r) ==
    /\ accounts' = r.store.accounts
    /\ current_account' = r.store.current_account
    /\ file_accounts' = r.store.file_accounts
    /\ file_current' = r.store.file_current
    /\ last_op' = [op |-> op, email |-> email, api_key |-> api_key, ret |-> r.ret]
    /\ pre_store' = Store
    /\ UNCHANGED <<other, added, objVars, callVars, store0, batchVars, navVars>>

AddAccount(email, api_key, fault) ==
    Apply("add", email, api_key, add_account(Store, email, api_key, fault))

SwitchAccount(email, fault) ==
    Apply("switch", email, Null, switch_account(Store, email, fault))

DeleteAccount(email, fault) ==
    Apply("delete", email, Null, delete_account(Store, email, fault))

NextMgr ==
    \/ \E email \in Emails, api_key \in ApiKeys : AddAccount(email, api_key, "none")
    \/ \E email \in Emails : SwitchAccount(email, "none")
    \/ \E email \in Emails : DeleteAccount(email, "none")

SpecMgr == InitMgr /\ [][NextMgr]_vars

\* --------------------------------------- one manager, file writes may fail
\* Which write_text of a call raises, if one does and the call gets to it,
\* and what it leaves of the file.
Faults == {"none", "first", "first_empty", "first_part",
           "second", "second_empty", "second_part"}

NextFault ==
    \/ \E email \in Emails, fault \in Faults : AddAccount(email, KeyOf(email), fault)
    \/ \E email \in Emails, fault \in Faults : SwitchAccount(email, fault)
    \/ \E email \in Emails, fault \in Faults : DeleteAccount(email, fault)

SpecFault == InitMgr /\ [][NextFault]_vars

\* ------------------------------------------ two managers over one store
\* The two instances: the one of the variables accounts and
\* current_account, and the one of the variable other.
Managers == {"first", "second"}

\* GeminiAccountManager() of the second instance: it loads what is
\* persisted at that moment.
ConstructOther ==
    /\ other = Null
    /\ other' = [accounts |-> load_accounts(file_accounts),
                 current_account |-> LoadedPointer(file_current)]
    /\ UNCHANGED <<storeVars, objVars, callVars, store0, batchVars, navVars,
                   last_op, pre_store, added>>

\* An instance together with the files both write to.
StoreOf(who) ==
    IF who = "first" THEN Store
    ELSE [accounts |-> other.accounts, current_account |-> other.current_account,
          file_accounts |-> file_accounts, file_current |-> file_current]

\* The instance who and the files become what a call made of them. Of the
\* calls it is kept which emails were added with success and not deleted.
ApplyBy(who, op, email, r) ==
    /\ who = "second" => other /= Null
    /\ file_accounts' = r.store.file_accounts
    /\ file_current' = r.store.file_current
    /\ IF who = "first"
       THEN /\ accounts' = r.store.accounts
            /\ current_account' = r.store.current_account
            /\ other' = other
       ELSE /\ other' = [accounts |-> r.store.accounts,
                         current_account |-> r.store.current_account]
            /\ UNCHANGED <<accounts, current_account>>
    /\ added' = IF ~r.ret[1] THEN added
                ELSE IF op = "add" THEN added \cup {email}
                ELSE IF op = "delete" THEN added \ {email}
                ELSE added
    /\ last_op' = [op |-> op, email |-> email, api_key |-> Null, ret |-> r.ret]
    /\ UNCHANGED <<pre_store, objVars, callVars, store0, batchVars, navVars>>

AddAccountBy(who, email) ==
    /\ who = "second" => other /= Null
    /\ ApplyBy(who, "add", email, add_account(StoreOf(who), email, KeyOf(email), "none"))

SwitchAccountBy(who, email) ==
    /\ who = "second" => other /= Null
    /\ ApplyBy(who, "switch", email, switch_account(StoreOf(who), email, "none"))

DeleteAccountBy(who, email) ==
    /\ who = "second" => other /= Null
    /\ ApplyBy(who, "delete", email, delete_account(StoreOf(who), email, "none"))

NextTwo ==
    \/ ConstructOther
    \/ \E who \in Managers, email \in Emails : AddAccountBy(who, email)
    \/ \E who \in Managers, email \in Emails : SwitchAccountBy(who, email)
    \/ \E who \in Managers, email \in Emails : DeleteAccountBy(who, email)

SpecTwo == InitMgr /\ [][NextTwo]_vars

\* ------------------------------------------------------------- the menu
\* A dict without keys.
EmptyMap == [key \in {} |-> key]

\* The values of an items dict: a nested dict with "title" and "items", or
\* the title of a tool (a str). A title is the sequence of its characters.
Submenu(title, items) == [title |-> title, is_dict |-> TRUE, items |-> items]
Tool(title) == [title |-> title, is_dict |-> FALSE, items |-> EmptyMap]

\* Menu.menus
menus ==
    ("1" :> Submenu(<<"D", "a", "t", "a", " ", "&", " ", "A", "I", " ", "U", "t", "i", "l", "i", "t", "i", "e", "s">>,
        ("1" :> Submenu(<<"V", "i", "s", "i", "o", "n", " ", "T", "o", "o", "l">>,
            ("1" :> Submenu(<<"R", "o", "b", "o", "f", "l", "o", "w", " ", "T", "o", "o", "l", "s">>,
                ("1" :> Tool(<<"U", "p", "l", "o", "a", "d", " ", "M", "o", "d", "e", "l">>)) @@
                ("2" :> Tool(<<"A", "d", "d", " ", "A", "c", "c", "o", "u", "n", "t">>)) @@
                ("3" :> Tool(<<"D", "e", "l", "e", "t", "e", " ", "A", "c", "c", "o", "u", "n", "t">>)) @@
                ("4" :> Tool(<<"S", "w", "i", "t", "c", "h", " ", "A", "c", "c", "o", "u", "n", "t">>)))) @@
            ("2" :> Submenu(<<"V", "i", "d", "e", "o", " ", "T", "o", "o", "l", "s">>,
                ("1" :> Tool(<<"V", "i", "d", "e", "o", " ", "t", "o", " ", "F", "r", "a", "m", "e", "s">>)))) @@
            ("3" :> Submenu(<<"M", "u", "l", "t", "i", "m", "o", "d", "a", "l", " ", "T", "o", "o", "l", "s">>,
                ("1" :> Tool(<<"I", "m", "a", "g", "e", " ", "A", "n", "n", "o", "t", "a", "t", "i", "o", "n">>)))))) @@
        ("2" :> Submenu(<<"D", "a", "t", "a", "s", "e", "t", " ", "T", "o", "o", "l", "s">>,
            ("1" :> Submenu(<<"F", "o", "r", "m", "a", "t", " ", "C", "o", "n", "v", "e", "r", "s", "i", "o", "n">>,
                ("1" :> Tool(<<"C", "O", "C", "O", " ", "t", "o", " ", "Y", "O", "L", "O">>)))))) @@
        ("3" :> Submenu(<<"A", "I", " ", "D", "e", "v", "e", "l", "o", "p", "m", "e", "n", "t">>,
            ("1" :> Submenu(<<"H", "u", "g", "g", "i", "n", "g", " ", "F", "a", "c", "e", " ", "T", "o", "o", "l", "s">>,
                ("1" :> Tool(<<"C", "l", "o", "n", "e", " ", "M", "o", "d", "e", "l", " ", "R", "e", "p", "o", "s", "i", "t", "o", "r", "y">>)) @@
                ("2" :> Tool(<<"M", "o", "d", "e", "l", " ", "M", "a", "n", "a", "g", "e", "m", "e", "n", "t">>)))) @@
            ("2" :> Submenu(<<"G", "e", "m", "i", "n", "i", " ", "A", "I", " ", "T", "o", "o", "l", "s">>,
                ("1" :> Tool(<<"C", "h", "a", "t", " ", "C", "L", "I">>)) @@
                ("2" :> Tool(<<"A", "u", "t", "o", " ", "G", "i", "t", " ", "C", "o", "m", "m", "i", "t", " ", "M", "e", "s", "s", "a", "g", "e">>)) @@
                ("3" :> Submenu(<<"A", "c", "c", "o", "u", "n", "t", " ", "M", "a", "n", "a", "g", "e", "m", "e", "n", "t">>,
                    ("1" :> Tool(<<"A", "d", "d", " ", "A", "c", "c", "o", "u", "n", "t">>)) @@
                    ("3" :> Tool(<<"S", "w", "i", "t", "c", "h", " ", "A", "c", "c", "o", "u", "n", "t">>)) @@
                    ("4" :> Tool(<<"D", "e", "l", "e", "t", "e", " ", "A", "c", "c", "o", "u", "n", "t">>)))))))))) @@
    ("2" :> Submenu(<<"M", "o", "b", "i", "l", "e", " ", "D", "e", "v", "e", "l", "o", "p", "m", "e", "n", "t">>,
        ("1" :> Submenu(<<"A", "n", "d", "r", "o", "i", "d", " ", "T", "o", "o", "l", "s">>,
            ("1" :> Submenu(<<"A", "D", "B", " ", "M", "a", "n", "a", "g", "e", "m", "e", "n", "t">>,
                ("1" :> Tool(<<"C", "o", "n", "n", "e", "c", "t", " ", "A", "D", "B", " ", "W", "i", "F", "i">>)) @@
                ("2" :> Tool(<<"L", "i", "s", "t", " ", "A", "D", "B", " ", "D", "e", "v", "i", "c", "e", "s">>)) @@
                ("3" :> Tool(<<"R", "e", "m", "o", "v", "e", " ", "A", "D", "B", " ", "D", "e", "v", "i", "c", "e">>)) @@
                ("4" :> Tool(<<"U", "n", "i", "n", "s", "t", "a", "l", "l", " ", "A", "p", "p">>)))) @@
            ("2" :> Submenu(<<"B", "u", "i", "l", "d", " ", "T", "o", "o", "l", "s">>,
                ("1" :> Tool(<<"G", "e", "n", "e", "r", "a", "t", "e", " ", "A", "A", "B">>)))))) @@
        ("2" :> Submenu(<<"F", "l", "u", "t", "t", "e", "r", " ", "T", "o", "o", "l", "s">>,
            ("1" :> Tool(<<"D", "e", "v", "e", "l", "o", "p", "m", "e", "n", "t", " ", "U", "t", "i", "l", "s">>)))))) @@
    ("3" :> Submenu(<<"S", "y", "s", "t", "e", "m", " ", "T", "o", "o", "l", "s">>,
        ("1" :> Submenu(<<"P", "e", "r", "f", "o", "r", "m", "a", "n", "c", "e", " ", "M", "o", "n", "i", "t", "o", "r">>,
            ("1" :> Tool(<<"C", "P", "U", " ", "U", "s", "a", "g", "e">>)) @@
            ("2" :> Tool(<<"R", "A", "M", " ", "U", "s", "a", "g", "e">>)) @@
            ("3" :> Tool(<<"S", "t", "o", "r", "a", "g", "e", " ", "A", "n", "a", "l", "y", "s", "i", "s">>)) @@
            ("4" :> Tool(<<"P", "r", "o", "c", "e", "s", "s", " ", "L", "i", "s", "t">>)))) @@
        ("2" :> Submenu(<<"N", "e", "t", "w", "o", "r", "k", " ", "T", "o", "o", "l", "s">>,
            ("1" :> Tool(<<"R", "e", "q", "u", "e", "s", "t", " ", "L", "o", "g", "g", "e", "r">>)))) @@
        ("3" :> Submenu(<<"S", "S", "H", " ", "M", "a", "n", "a", "g", "e", "m", "e", "n", "t">>,
            ("1" :> Tool(<<"G", "e", "n", "e", "r", "a", "t", "e", " ", "S", "S", "H", " ", "K", "e", "y">>)) @@
            ("2" :> Tool(<<"V", "i", "e", "w", " ", "P", "u", "b", "l", "i", "c", " ", "K", "e", "y">>)) @@
            ("3" :> Tool(<<"R", "e", "m", "o", "v", "e", " ", "S", "S", "H", " ", "K", "e", "y">>)))))) @@
    ("4" :> Submenu(<<"D", "e", "v", "e", "l", "o", "p", "e", "r", " ", "S", "e", "t", "u", "p">>,
        ("1" :> Submenu(<<"E", "n", "v", "i", "r", "o", "n", "m", "e", "n", "t", " ", "S", "e", "t", "u", "p">>,
            ("1" :> Tool(<<"I", "n", "s", "t", "a", "l", "l", " ", "D", "e", "v", " ", "T", "o", "o", "l", "s">>)))) @@
        ("2" :> Submenu(<<"A", "p", "p", "l", "i", "c", "a", "t", "i", "o", "n", " ", "M", "a", "n", "a", "g", "e", "m", "e", "n", "t">>,
            ("1" :> Tool(<<"V", "i", "e", "w", " ", "R", "u", "n", "n", "i", "n", "g", " ", "A", "p", "p", "s">>)) @@
            ("2" :> Tool(<<"U", "n", "i", "n", "s", "t", "a", "l", "l", " ", "A", "p", "p", "s">>))))))

\* Variant: every value of the current menu is taken for a dict.
IsDictAlways(value) == TRUE

\* isinstance(current_menu[choice], dict)
IsDict(value) == value.is_dict

\* What get_current_menu can hand back: a dict of items, the title of a
\* tool (a str), or the TypeError that indexing a str with a str raises.
Dict(items) == [kind |-> "dict", items |-> items, title |-> <<>>]
Str(title) == [kind |-> "str", items |-> EmptyMap, title |-> title]
TypeError == [kind |-> "TypeError", items |-> EmptyMap, title |-> <<>>]

\* The characters of a string that is typed at the prompt.
CharsOf(c) == [i \in 1..Len(c) |-> SubSeq(c, i, i)]

\* c in value: a key of a dict, a substring of a str
In(c, value) ==
    IF value.kind = "dict" THEN c \in DOMAIN value.items
    ELSE Contains(value.title, CharsOf(c))

\* Menu.get_current_menu: the loop over path from the value current. A p
\* that is not in current gives {}; a dict that is stepped into is
\* replaced by its "items"; a str that is stepped into is kept, and the
\* next p is looked for in its characters.
RECURSIVE WalkMenu(_, _)
WalkMenu(current, path) ==
    IF path = <<>> THEN current
    ELSE IF ~In(Head(path), current) THEN Dict(EmptyMap)
    ELSE IF current.kind = "str" THEN TypeError
    ELSE LET value == current.items[Head(path)] IN
         IF value.is_dict THEN WalkMenu(Dict(value.items), Tail(path))
         ELSE IF Contains(value.title, CharsOf("items")) THEN TypeError
         ELSE WalkMenu(Str(value.title), Tail(path))

get_current_menu(path) == WalkMenu(Dict(menus), path)

\* Menu.is_valid_choice
is_valid_choice(c, current_menu) ==
    IF c \in {"0", "b", "m"} THEN TRUE ELSE In(c, current_menu)

\* What get_input can return: the navigation keys, keys of menus, and
\* strings that are keys of no menu.
Choices == {"0", "b", "m", "1", "2", "3", "4", "5", "x", "", "title", "items"}

\* ".".join(path)
RECURSIVE Join(_)
Join(path) ==
    IF path = <<>> THEN ""
    ELSE IF Len(path) = 1 THEN path[1]
    ELSE path[1] \o "." \o Join(Tail(path))

\* get_tool_module: the modules of the menu paths that have one
tool_map ==
    ("1.1.2.1" :> "categorie.data_ai.vision_tool.video_tool.video_to_frames") @@
    ("1.2.1.1" :> "categorie.data_ai.dataset_tools.format_conversion.coco_to_yolo") @@
    ("1.3.1.1" :> "categorie.data_ai.ai_development.huggingface_tools.huggingface_manager") @@
    ("1.3.1.2" :> "categorie.data_ai.ai_development.huggingface_tools.huggingface_manager") @@
    ("1.3.2.1" :> "categorie.data_ai.ai_development.gemini_tools.gemini_tools") @@
    ("1.3.2.2" :> "categorie.data_ai.ai_development.gemini_tools.gemini_tools") @@
    ("2.1.1.1" :> "categorie.mobile_dev.android_tools.adb_management.adb_tools") @@
    ("2.1.1.2" :> "categorie.mobile_dev.android_tools.adb_management.adb_tools") @@
    ("2.1.1.3" :> "categorie.mobile_dev.android_tools.adb_management.adb_tools") @@
    ("2.1.1.4" :> "categorie.mobile_dev.android_tools.adb_management.adb_tools") @@
    ("2.1.2.1" :> "categorie.mobile_dev.android_tools.build_tools.build_tools") @@
    ("3.1.1" :> "categorie.system_tools.performance_monitor.system_monitor") @@
    ("3.1.2" :> "categorie.system_tools.performance_monitor.system_monitor") @@
    ("3.1.3" :> "categorie.system_tools.performance_monitor.system_monitor") @@
    ("3.1.4" :> "categorie.system_tools.performance_monitor.system_monitor") @@
    ("3.2.1" :> "categorie.system_tools.network_tools.request_logger") @@
    ("3.3.1" :> "categorie.system_tools.ssh_management.ssh_manager") @@
    ("3.3.2" :> "categorie.system_tools.ssh_management.ssh_manager") @@
    ("3.3.3" :> "categorie.system_tools.ssh_management.ssh_manager") @@
    ("4.1.1" :> "categorie.dev_setup.env_setup.dev_tools_installer") @@
    ("4.2.1" :> "categorie.dev_setup.env_setup.dev_tools_installer") @@
    ("4.2.2" :> "categorie.dev_setup.env_setup.dev_tools_installer")

get_tool_module(path) ==
    IF Join(path) \in DOMAIN tool_map THEN tool_map[Join(path)] ELSE None

\* The modules of tool_map that define main.
HasMain(module_path) ==
    module_path /= "categorie.data_ai.dataset_tools.format_conversion.coco_to_yolo"

\* The modules of tool_map that import a package from outside the standard
\* library which the program has not imported before (cv2, tqdm, requests
\* and huggingface_hub, google.generativeai, pyshark). psutil, which
\* system_monitor imports, is imported by core.menu.
ThirdPartyModules ==
    {"categorie.data_ai.vision_tool.video_tool.video_to_frames",
     "categorie.data_ai.dataset_tools.format_conversion.coco_to_yolo",
     "categorie.data_ai.ai_development.huggingface_tools.huggingface_manager",
     "categorie.data_ai.ai_development.gemini_tools.gemini_tools",
     "categorie.system_tools.network_tools.request_logger"}

\* Whether importlib.import_module can succeed, and can fail, for a path.
Imports(path) ==
    IF get_tool_module(path) \in ThirdPartyModules THEN BOOLEAN ELSE {TRUE}

\* execute_tool(path), where imported says whether import_module succeeds
\* and parsed whether the parse_args() call at the start of the module's
\* main returns for the sys.argv of the program (it raises SystemExit on
\* arguments it rejects and after printing its help). "ran" is a main that
\* returned or raised an Exception, which execute_tool catches; SystemExit
\* is no Exception and leaves execute_tool.
execute_tool(path, imported, parsed) ==
    LET module_path == get_tool_module(path) IN
    IF module_path = None THEN "no_tool"
    ELSE IF ~imported THEN "import_error"
    ELSE IF ~HasMain(module_path) THEN "no_main"
    ELSE IF ~parsed THEN "SystemExit"
    ELSE "ran"

\* The ends of execute_tool after which the loop of start goes on.
Returned == {"no_tool", "import_error", "no_main", "ran"}

\* start() before its loop; the accounts are not touched by the loop.
InitMenu == InitMgr

\* One pass of the while loop of start with the input c. What
\* get_current_menu raises, and the KeyError or TypeError of
\* current_menu[c] for a c that cannot index it, is answered by the except
\* clause of the loop with "Menu error" and the reset of the path. The
\* SystemExit of sys.exit(0) and of a tool passes that clause, which is for
\* Exception, and ends the program.
Navigate(c, imported, parsed) ==
    /\ handled \notin {"exit", "SystemExit"}
    /\ choice' = c
    /\ prev_path' = current_path
    /\ LET current_menu == get_current_menu(current_path) IN
       IF current_menu.kind = "TypeError"
       THEN handled' = "error" /\ current_path' = <<>>
       ELSE IF c = "0"
       THEN handled' = "exit" /\ current_path' = current_path
       ELSE IF c = "b" /\ current_path /= <<>>
       THEN handled' = "back" /\ current_path' = SubSeq(current_path, 1, Len(current_path) - 1)
       ELSE IF c = "m"
       THEN handled' = "main" /\ current_path' = <<>>
       ELSE IF is_valid_choice(c, current_menu)
       THEN IF current_menu.kind /= "dict" \/ c \notin DOMAIN current_menu.items
            THEN handled' = "error" /\ current_path' = <<>>
            ELSE IF IsDict(current_menu.items[c])
            THEN handled' = "submenu" /\ current_path' = Append(current_path, c)
            ELSE LET new_path == Append(current_path, c) IN
                 /\ imported \in Imports(new_path)
                 /\ handled' = execute_tool(new_path, imported, parsed)
                 /\ current_path' = current_path
       ELSE handled' = "invalid" /\ current_path' = current_path
    /\ UNCHANGED <<storeVars, objVars, callVars, store0, mgrVars, batchVars>>

NextMenu ==
    \E c \in Choices, imported \in BOOLEAN, parsed \in BOOLEAN :
        Navigate(c, imported, parsed)

SpecMenu == InitMenu /\ [][NextMenu]_vars

\* ------------------------------------------------------- claim vocabulary
CallEmails == [i \in DOMAIN calls |-> calls[i].email]
CallLabels == [i \in DOMAIN calls |-> calls[i].label]
NoSuccess == \A i \in DOMAIN calls : calls[i].label /= "success"
AllTransient == \A i \in DOMAIN calls : calls[i].label = "transient"
StoreEmails == AccountsList(accounts)
NumAccounts == Len(accounts)

\* The first n credentials in round-robin order from the credential start.
RoundRobin(accounts_list, start, n) ==
    [i \in 1..n |->
        accounts_list[((IndexOf(accounts_list, start) + i - 2) % Len(accounts_list)) + 1]]

\* Every value a successful request can return.
SuccessValues == {w.value : w \in {b \in WorkBehaviours : b.label = "success"}}

\* C1: a request that succeeds is the last request of its call: the call has
\* returned, and returned exactly the list that request's response encodes,
\* whatever failed before it.
C1_SuccessReturnedAtOnce ==
    \A i \in DOMAIN calls :
        calls[i].label = "success" =>
            /\ i = Len(calls)
            /\ pc = "returned"
            /\ result = calls[i].value

C1_Witness ==
    /\ pc = "returned"
    /\ Len(calls) = 3
    /\ calls[1].label = "transient"
    /\ calls[2].label = "permanent"
    /\ calls[3].label = "success"
    /\ result = <<<<"obj">>>>

\* C2: once a call has returned the success of a credential, that credential
\* is the annotator's active one (current_email).
C2_ActiveIsSuccessful ==
    (pc = "returned" /\ calls /= <<>> /\ calls[Len(calls)].label = "success")
        => current_email = calls[Len(calls)].email

\* C3: while every request fails transiently, the credentials requested are
\* the round-robin order from the active one, at most one request each; when
\* all have been tried (where the cool-down would begin) and when the call
\* gives up, exactly N requests were made and no cool-down came before.
C3_AllTransientTriesEachOnce ==
    (phase = "ready" /\ calls /= <<>> /\ AllTransient) =>
        /\ Len(calls) <= NumAccounts
        /\ CallEmails = RoundRobin(StoreEmails, current_email, Len(calls))
        /\ (pc = "loop" /\ ~LoopCondition(tried_accounts, all_accounts)) =>
               (Len(calls) = NumAccounts /\ sleeps = 0)
        /\ (pc = "returned") => (Len(calls) = NumAccounts /\ sleeps = 0)

C3_Witness ==
    /\ pc = "loop"
    /\ NumAccounts = 3
    /\ current_email = StoreEmails[2]
    /\ Len(calls) = 3
    /\ AllTransient
    /\ tried_accounts = SeqToSet(StoreEmails)

\* C4: from the loop head with every credential tried and failed, the next
\* step clears the attempt record, takes one cool-down and goes on with the
\* loop from the active credential; it does not return.
C4_CooldownThenNewCycle ==
    [][(pc = "loop" /\ Cardinality(tried_accounts) = Len(all_accounts)) =>
          /\ pc' = "loop"
          /\ tried_accounts' = {}
          /\ sleeps' = sleeps + 1
          /\ rot_account' = current_email]_vars

\* C5: the scenario [A, B] with A active, whose requests go permanent,
\* permanent, transient, transient, success: a call that has returned made
\* all five requests, took two cool-downs and returned A's value.
C5_Script == <<"permanent", "permanent", "transient", "transient", "success">>

C5_TwoCooldownsThenSuccess ==
    ( /\ pc = "returned"
      /\ StoreEmails = <<"a@x", "b@x">>
      /\ current_email = "a@x"
      /\ calls /= <<>>
      /\ Len(calls) <= Len(C5_Script)
      /\ CallLabels = SubSeq(C5_Script, 1, Len(calls)) )
    => ( /\ Len(calls) = 5
         /\ sleeps = 2
         /\ calls[5].email = "a@x"
         /\ result = calls[5].value )

\* C6: a call whose requests all fail never returns.
C6_NeverReturnsWhileAllFail ==
    (pc = "returned" /\ calls /= <<>>) => ~NoSuccess

\* C7: with an empty account set the construction of the annotator ends in
\* the no-credentials error, and no request is ever made.
C7_EmptySetNoWork ==
    (phase /= "new" /\ accounts = <<>>) =>
        (phase = "no_credentials" /\ pc = "idle" /\ ncalls = 0 /\ calls = <<>>)

C7_Witness == phase = "no_credentials" /\ accounts = <<>> /\ file_current /= None

\* C8: whatever mix of transient, permanent and invalid-response failures
\* occurs, the credentials requested are the round-robin order from the
\* active one, and a call that ends without a success has requested all N.
C8_RoundRobinWhateverFails ==
    (phase = "ready" /\ calls /= <<>>) =>
        /\ CallEmails = RoundRobin(StoreEmails, current_email, Len(calls))
        /\ (pc = "returned" /\ NoSuccess) => Len(calls) = NumAccounts
        /\ (pc = "loop") => rot_account = RoundRobin(StoreEmails, current_email,
                                                      Len(calls) + 1)[Len(calls) + 1]

C8_Witness ==
    /\ pc = "returned"
    /\ NumAccounts = 3
    /\ current_email = StoreEmails[3]
    /\ CallLabels = <<"permanent", "transient", "permanent">>
    /\ CallEmails = <<StoreEmails[3], StoreEmails[1], StoreEmails[2]>>

\* C9: the value of a call that gave up without a success differs from
\* every successful result and holds a failure reason for each credential
\* that failed.
C9_GiveUpDistinguishable ==
    (pc = "returned" /\ NoSuccess) =>
        /\ result \notin SuccessValues
        /\ \A i \in DOMAIN calls : \E j \in DOMAIN result : result[j] = calls[i]

\* C10: from construction on, through every call, the account store (on
\* disk and in the manager) is what was loaded.
C10_StoreUnchanged ==
    phase /= "new" => <<file_accounts, file_current, accounts, current_account>> = store0

C10_Witness ==
    /\ ncalls = 2
    /\ pc = "returned"
    /\ calls /= <<>>
    /\ calls[Len(calls)].label = "success"
    /\ calls[Len(calls)].email /= current_email
    /\ <<file_accounts, file_current, accounts, current_account>> = store0

\* ------------------------------------------- claims on the manager alone
InDict(accts, email) == \E i \in DOMAIN accts : accts[i].email = email
Without(accts, email) == SelectSeq(accts, LAMBDA a : a.email /= email)
Called(op) == last_op.op = op

\* C11: on one manager started on an empty store, after any calls of
\* add_account, switch_account and delete_account, the pointer names a
\* stored account whenever there is one, and is None exactly when there is
\* none.
C11_PointerNamesStoredAccount ==
    /\ accounts /= <<>> => InDict(accounts, current_account)
    /\ current_account = None <=> accounts = <<>>

\* C14: emails are unique in the set, and add_account with a stored email
\* fails with "Account already exists" and changes nothing, in the manager
\* and on disk.
C14_DuplicateAddRejected ==
    /\ \A i, j \in DOMAIN accounts : i /= j => accounts[i].email /= accounts[j].email
    /\ (Called("add") /\ InDict(pre_store.accounts, last_op.email)) =>
           (last_op.ret = <<FALSE, "Account already exists">> /\ Store = pre_store)

C14_Witness ==
    /\ Called("add")
    /\ Len(accounts) = 2
    /\ accounts[2].email = last_op.email
    /\ accounts[2].api_key /= last_op.api_key
    /\ current_account = accounts[1].email
    /\ last_op.ret[1] = FALSE

\* C17: add_account of a new email succeeds and puts the account last; it
\* becomes the current one exactly when the store was empty, otherwise the
\* pointer and the other accounts stay as they were.
C17_AddNewAccount ==
    (Called("add") /\ ~InDict(pre_store.accounts, last_op.email)) =>
        /\ last_op.ret = <<TRUE, "Account added successfully">>
        /\ accounts = Append(pre_store.accounts,
                             [email |-> last_op.email, api_key |-> last_op.api_key])
        /\ file_accounts = accounts
        /\ IF pre_store.accounts = <<>>
           THEN current_account = last_op.email /\ file_current = last_op.email
           ELSE /\ current_account = pre_store.current_account
                /\ file_current = pre_store.file_current

C17_Witness ==
    /\ Called("add")
    /\ Len(pre_store.accounts) = 2
    /\ Len(accounts) = 3
    /\ current_account = accounts[2].email
    /\ last_op.ret[1] = TRUE

\* C18: delete_account removes the named account only; deleting the current
\* one makes the first remaining account current, or unsets the pointer (in
\* the manager and on disk) when none remains; deleting another account
\* leaves the pointer.
C18_DeleteAccount ==
    (Called("delete") /\ InDict(pre_store.accounts, last_op.email)) =>
        /\ last_op.ret = <<TRUE, "Account deleted successfully">>
        /\ accounts = Without(pre_store.accounts, last_op.email)
        /\ file_accounts = accounts
        /\ IF last_op.email /= pre_store.current_account
           THEN /\ current_account = pre_store.current_account
                /\ file_current = pre_store.file_current
           ELSE IF accounts /= <<>>
           THEN current_account = accounts[1].email /\ file_current = accounts[1].email
           ELSE current_account = None /\ file_current = None

C18_Witness ==
    /\ Called("delete")
    /\ Len(pre_store.accounts) = 3
    /\ pre_store.current_account = pre_store.accounts[2].email
    /\ last_op.email = pre_store.current_account
    /\ current_account = pre_store.accounts[1].email

\* C19: switch_account and delete_account with an email that is not stored
\* fail with "Account not found" and change nothing, in the manager and on
\* disk; switch_account with a stored email moves the pointer and nothing
\* else.
C19_UnknownEmailRejected ==
    /\ (Called("switch") \/ Called("delete")) /\ ~InDict(pre_store.accounts, last_op.email) =>
           (last_op.ret = <<FALSE, "Account not found">> /\ Store = pre_store)
    /\ (Called("switch") /\ InDict(pre_store.accounts, last_op.email)) =>
           /\ last_op.ret = <<TRUE, "Successfully switched account">>
           /\ accounts = pre_store.accounts
           /\ file_accounts = pre_store.file_accounts
           /\ current_account = last_op.email
           /\ file_current = last_op.email

C19_Witness ==
    /\ Called("switch")
    /\ Len(accounts) = 2
    /\ ~InDict(pre_store.accounts, last_op.email)
    /\ last_op.ret[1] = FALSE
    /\ Store = pre_store

\* ------------------------------------- claims on the annotator, continued
\* The response of a request has text that parses as a JSON list.
ParsesAsList(w) ==
    /\ ~w.raises
    /\ w.has_text
    /\ LET parsed == JsonLoads(CleanResponse(w.text)) IN parsed.ok /\ parsed.is_list

\* C12: once constructed over a non-empty account set (the model being
\* initialised), the annotator is ready and its active credential is the
\* one the pointer names if the pointer names a stored account, and the
\* first stored account otherwise.
C12_ActiveSeededOrFirst ==
    (phase \notin {"new", "init_error"} /\ accounts /= <<>>) =>
        /\ phase = "ready"
        /\ current_email = IF HasAccount(accounts, current_account)
                           THEN current_account
                           ELSE FirstKey(accounts)

\* C13: a batch is never left before its last image: whatever a call of
\* _analyze_image returned, the batch goes on, and it is done only when
\* every image was passed to _analyze_image.
C13_BatchReachesEnd ==
    /\ batch /= "aborted"
    /\ batch = "done" => ncalls = total

\* C15: in every call the attempt record holds exactly the credentials
\* requested during this call, and those are the credentials in round-robin
\* order from the active one, whatever failed in earlier calls.
C15_NoRecordSurvives ==
    pc = "loop" =>
        /\ tried_accounts = SeqToSet(CallEmails)
        /\ CallEmails = RoundRobin(StoreEmails, current_email, Len(calls))

\* A later call has sent a request to a credential that failed before.
C15_Witness ==
    /\ ncalls >= 2
    /\ calls /= <<>>
    /\ calls[Len(calls)].email \in failed_before

\* C16: a call that returned a success took no cool-down; and with
\* [A, B, C], A active, A and B failing transiently and C succeeding, the
\* requests went to A, B, C in that order, the value returned is that of C
\* and the active credential is C.
C16_FirstPassSuccess ==
    (pc = "returned" /\ outcome = "success") =>
        /\ sleeps = 0
        /\ (/\ StoreEmails = <<"a@x", "b@x", "c@x">>
             /\ store0[4] = "a@x"
             /\ CallLabels = <<"transient", "transient", "success">>) =>
                /\ CallEmails = <<"a@x", "b@x", "c@x">>
                /\ result = calls[3].value
                /\ current_email = "c@x"

\* The responses called invalid are those without text or whose text does
\* not parse as a JSON list, the ones called success those whose text does.
LabelsSayWhatParses ==
    \A w \in WorkBehaviours :
        /\ w.label = "invalid" <=> (~w.raises /\ ~ParsesAsList(w))
        /\ w.label = "success" <=> ParsesAsList(w)

\* C20: the responses called invalid are those without text, or whose text
\* does not parse as a JSON list; a call returns a value of an account only
\* for a response that does; after an invalid response the rotation is at
\* the next account in round-robin order with the account recorded as
\* tried, and the call that ends on it returns the empty list.
C20_OnlyJsonListReturned ==
    /\ LabelsSayWhatParses
    /\ (pc = "returned" /\ outcome = "success") =>
          /\ calls /= <<>>
          /\ calls[Len(calls)].label = "success"
          /\ result = calls[Len(calls)].value
    /\ \A i \in DOMAIN calls : calls[i].label = "invalid" =>
          /\ i < Len(calls) => calls[i + 1].email = NextAccount(StoreEmails, calls[i].email)
          /\ (i = Len(calls) /\ pc = "loop") =>
                /\ calls[i].email \in tried_accounts
                /\ rot_account = NextAccount(StoreEmails, calls[i].email)
          /\ (i = Len(calls) /\ pc = "returned") =>
                /\ outcome = "exhausted"
                /\ result = <<>>

\* A call went on to the next account after an invalid response, and one
\* ended on an invalid response.
C20_Witness ==
    /\ pc = "returned"
    /\ Len(calls) >= 2
    /\ calls[Len(calls) - 1].label = "invalid"
    /\ calls[Len(calls) - 1].value = <<>>
    /\ calls[Len(calls)].label = "invalid"
    /\ outcome = "exhausted"

\* ------------------------------------ claims on the manager, continued
\* C21: after an add_account that returned failure, the manager's account
\* set and pointer are what they were before the call.
C21_FailedAddChangesNothing ==
    (Called("add") /\ ~last_op.ret[1]) =>
        /\ accounts = pre_store.accounts
        /\ current_account = pre_store.current_account

\* C22: on one manager whose writes succeed, what is persisted is what the
\* manager holds, and loading it gives the manager's state: the accounts in
\* their order, and the pointer, with no pointer file when it is None.
C22_PersistedEqualsMemory ==
    /\ file_accounts = accounts
    /\ file_current = current_account
    /\ load_accounts(file_accounts) = accounts
    /\ LoadedPointer(file_current) = current_account

\* The delete of the last of three accounts removed the pointer file.
C22_Witness ==
    /\ Called("delete") /\ last_op.ret[1]
    /\ accounts = <<>>
    /\ pre_store.file_current /= None
    /\ file_current = None
    /\ LoadedPointer(file_current) = None

\* C23: with two managers over one store, every email added with success
\* and not deleted since is in the accounts file, and the pointer file is
\* absent or names an account of the accounts file.
C23_AddsSurviveOtherInstance ==
    /\ \A email \in added : HasAccount(file_accounts, email)
    /\ file_current = None \/ HasAccount(file_accounts, file_current)

\* ---------------------------------------------- claims on the menu loop
\* The path names a dict of Menu.menus: every key is there and its value
\* is a dict.
RECURSIVE AddressesSubmenu(_, _)
AddressesSubmenu(items, path) ==
    \/ path = <<>>
    \/ /\ Head(path) \in DOMAIN items
       /\ items[Head(path)].is_dict
       /\ AddressesSubmenu(items[Head(path)].items, Tail(path))

\* C24: current_path always names a submenu of Menu.menus and
\* get_current_menu gives a non-empty item map for it; the path grew by
\* the choice exactly when the choice named a nested submenu, "b" took the
\* last element off, "m" emptied the path, a tool that was launched
\* (whether it returned or ended the program) and an invalid choice left
\* it as it was.
C24_PathAddressesSubmenu ==
    /\ AddressesSubmenu(menus, current_path)
    /\ get_current_menu(current_path).kind = "dict"
    /\ DOMAIN get_current_menu(current_path).items /= {}
    /\ handled = "submenu" <=> (current_path = Append(prev_path, choice) /\ choice /= None)
    /\ handled = "submenu" =>
          /\ choice \in DOMAIN get_current_menu(prev_path).items
          /\ get_current_menu(prev_path).items[choice].is_dict
          /\ get_current_menu(current_path).items = get_current_menu(prev_path).items[choice].items
    /\ (choice = "b" /\ prev_path /= <<>>) =>
          /\ handled = "back"
          /\ current_path = SubSeq(prev_path, 1, Len(prev_path) - 1)
    /\ choice = "m" => (handled = "main" /\ current_path = <<>>)
    /\ handled \in Returned \cup {"SystemExit", "invalid"} => current_path = prev_path
    /\ handled \in Returned \cup {"SystemExit"} =>
          /\ choice \in DOMAIN get_current_menu(prev_path).items
          /\ ~get_current_menu(prev_path).items[choice].is_dict

\* A tool that has a module was launched from a submenu three levels down,
\* its main ran, and the loop went on with the path of that submenu.
C24_Witness ==
    /\ current_path = <<"2", "1", "1">>
    /\ prev_path = current_path
    /\ choice = "2"
    /\ get_tool_module(Append(prev_path, choice)) /= None
    /\ handled = "ran"

\* C25: no input makes a pass of the loop end in its except clause.
C25_NoMenuError ==
    handled /= "error"

====
